---- MODULE Spec2Model ----
(***************************************************************************)
(* bin/scrape_software_versions.py: the version scraper of the             *)
(* nf-core/hlatyping pipeline.  The script reads six version files, pulls  *)
(* a version string out of each with a regular expression, and reports the *)
(* result on stdout (a YAML/HTML fragment) and in software_versions.csv.   *)
(*                                                                         *)
(* The script runs under python 2.7 and under python 3 (its first line is  *)
(* #!/usr/bin/env python  , its second the print_function import), and the *)
(* two differ in how a file is read, in what \S matches and in what a      *)
(* deletion during iteration does.  The interpreter is part of the state.  *)
(* For python 3 the locale encoding is UTF-8 and the line separator "\n".  *)
(*                                                                         *)
(* A file is a sequence of bytes.  A text is a sequence of characters, each *)
(* its code: a byte value under python 2 (str), a Unicode code point under *)
(* python 3 (str).                                                         *)
(***************************************************************************)
EXTENDS Naturals, Sequences, FiniteSets

VARIABLES
    python,    \* the interpreter that runs the script
    fs,        \* the working directory: file name -> [exists, data (bytes)]
    pc,        \* position of the script
    error,     \* the exception that ended the script, "none" if none did
    results,   \* the OrderedDict: [keys: sequence of tools, val: tool -> text]
    visited,   \* tools the extraction loop has finished with
    cur,       \* the tool of the running loop iteration (k)
    open,      \* names of the files that are open
    stdout,    \* the bytes printed so far
    oldCsv,    \* history: software_versions.csv as it was before the run
    writes,    \* history: tool -> number of assignments results[k] = ... in the loop
    consumed   \* history: the traversals results.items() made to produce output

vars == <<python, fs, pc, error, results, visited, cur, open, stdout, oldCsv, writes,
          consumed>>

----------------------------------------------------------------------------
(* Bounds of the model *)

\* the longest file content, counted in pieces (see Pieces)
MaxPieces == 2

----------------------------------------------------------------------------
(* Characters *)

\* the ASCII characters from 32 (space) to 95 (_), in code order
UpperTable ==
    <<" ","!","\"","#","$","%","&","'","(",")","*","+",",","-",".","/","0","1","2",
      "3","4","5","6","7","8","9",":",";","<","=",">","?","@","A","B","C","D","E","F",
      "G","H","I","J","K","L","M","N","O","P","Q","R","S","T","U","V","W","X","Y","Z",
      "[","\\","]","^","_">>

\* the ASCII characters from 97 (a) to 126 (~), in code order
LowerTable ==
    <<"a","b","c","d","e","f","g","h","i","j","k","l","m","n","o","p","q","r","s","t",
      "u","v","w","x","y","z","{","|","}","~">>

Index(table, c) == CHOOSE i \in 1..Len(table) : table[i] = c

\* the code of a character of a literal of the script
Ord(c) ==
    IF c = "\n" THEN 10
    ELSE IF c = "\t" THEN 9
    ELSE IF \E i \in 1..Len(UpperTable) : UpperTable[i] = c
         THEN 31 + Index(UpperTable, c)
    ELSE 96 + Index(LowerTable, c)

\* a literal of the script as a text
Text(s) == [i \in 1..Len(s) |-> Ord(s[i])]

Interpreters == {"python2", "python3"}

----------------------------------------------------------------------------
(* Literals of the script *)

Tools == {"nf-core/hlatyping", "Nextflow", "Samtools", "Yara", "Optitype", "MultiQC"}

\* the order in which lines 16-21 insert the keys into results
DeclOrder == <<"nf-core/hlatyping", "Nextflow", "Samtools", "Yara", "Optitype", "MultiQC">>

Names ==
    [k \in Tools |->
        Text(CASE k = "nf-core/hlatyping" ->
                    <<"n","f","-","c","o","r","e","/","h","l","a","t","y","p","i","n","g">>
               [] k = "Nextflow" -> <<"N","e","x","t","f","l","o","w">>
               [] k = "Samtools" -> <<"S","a","m","t","o","o","l","s">>
               [] k = "Yara"     -> <<"Y","a","r","a">>
               [] k = "Optitype" -> <<"O","p","t","i","t","y","p","e">>
               [] k = "MultiQC"  -> <<"M","u","l","t","i","Q","C">>)]

\* the characters of the name of a tool, as "{}".format(k) renders the key
Name(k) == Names[k]

\* regexes[k][0]: the file the version of the tool is read from
FileOf(k) ==
    CASE k = "nf-core/hlatyping" -> "v_pipeline.txt"
      [] k = "Nextflow" -> "v_nextflow.txt"
      [] k = "Samtools" -> "v_samtools.txt"
      [] k = "Yara"     -> "v_yara.txt"
      [] k = "Optitype" -> "v_optitype.txt"
      [] k = "MultiQC"  -> "v_multiqc.txt"

Literals ==
    [k \in Tools |->
        Text(CASE k = "nf-core/hlatyping" -> <<>>
               [] k = "Nextflow" -> <<>>
               [] k = "Samtools" -> <<"s","a","m","t","o","o","l","s"," ">>
               [] k = "Yara"     ->
                    <<"y","a","r","a","_","m","a","p","p","e","r"," ","v","e","r","s",
                      "i","o","n",":"," ">>
               [] k = "Optitype" -> <<"V","e","r","s","i","o","n",":"," ">>
               [] k = "MultiQC"  ->
                    <<"m","u","l","t","i","q","c",","," ","v","e","r","s","i","o","n",
                      " ">>)]

\* regexes[k][1]: every pattern is a literal text followed by the group (\S+);
\* this is the literal text
Literal(k) == Literals[k]

InputFiles == {FileOf(k) : k \in Tools}

CsvFile == "software_versions.csv"

FileNames == InputFiles \cup {CsvFile}

\* (mutant) entries default to the empty text
EmptyDefault == <<>>

\* the default value of every entry (the backslash of the source literal only escapes the quote)
Placeholder ==
    Text(<<"<","s","p","a","n"," ","s","t","y","l","e","=","\"","c","o","l","o","r",":","#",
     "9","9","9","9","9","9",";","\"",">","N","/","A","<","/","s","p","a","n",">">>)

\* the triple-quoted text of the first print
YamlHeader ==
    Text(<<"\n","i","d",":"," ","'","s","o","f","t","w","a","r","e","_","v","e","r","s","i",
     "o","n","s","'","\n","s","e","c","t","i","o","n","_","n","a","m","e",":"," ","'",
     "n","f","-","c","o","r","e","/","h","l","a","t","y","p","i","n","g"," ","S","o",
     "f","t","w","a","r","e"," ","V","e","r","s","i","o","n","s","'","\n","s","e","c",
     "t","i","o","n","_","h","r","e","f",":"," ","'","h","t","t","p","s",":","/","/",
     "g","i","t","h","u","b",".","c","o","m","/","n","f","-","c","o","r","e","/","h",
     "l","a","t","y","p","i","n","g","'","\n","p","l","o","t","_","t","y","p","e",":",
     " ","'","h","t","m","l","'","\n","d","e","s","c","r","i","p","t","i","o","n",":",
     " ","'","a","r","e"," ","c","o","l","l","e","c","t","e","d"," ","a","t"," ","r",
     "u","n"," ","t","i","m","e"," ","f","r","o","m"," ","t","h","e"," ","s","o","f",
     "t","w","a","r","e"," ","o","u","t","p","u","t",".","'","\n","d","a","t","a",":",
     " ","|","\n"," "," "," "," ","<","d","l"," ","c","l","a","s","s","=","\"","d","l",
     "-","h","o","r","i","z","o","n","t","a","l","\"",">","\n">>)

DlClose == Text(<<" "," "," "," ","<","/","d","l",">">>)

DtOpen == Text(<<" "," "," "," "," "," "," "," ","<","d","t",">">>)

DtMid == Text(<<"<","/","d","t",">","<","d","d",">","<","s","a","m","p",">">>)

DtClose == Text(<<"<","/","s","a","m","p",">","<","/","d","d",">">>)

NL == Text(<<"\n">>)

TAB == Text(<<"\t">>)

VersionPrefix == Text(<<"v">>)

----------------------------------------------------------------------------
(* x.read(): from the bytes of a file to the text the pattern is applied to *)

Continuation(b) == b \in 128..191

\* the length of the well-formed UTF-8 sequence that starts at bytes[i];
\* 0 if there is none (strict decoding: no overlong forms, no surrogates,
\* nothing above U+10FFFF)
SequenceLength(bytes, i) ==
    LET c == bytes[i]
        n == Len(bytes)
    IN  IF c < 128 THEN 1
        ELSE IF c \in 194..223 /\ i + 1 <= n /\ Continuation(bytes[i + 1]) THEN 2
        ELSE IF /\ c \in 224..239
                /\ i + 2 <= n
                /\ bytes[i + 1] \in (IF c = 224 THEN 160..191
                                     ELSE IF c = 237 THEN 128..159 ELSE 128..191)
                /\ Continuation(bytes[i + 2]) THEN 3
        ELSE IF /\ c \in 240..244
                /\ i + 3 <= n
                /\ bytes[i + 1] \in (IF c = 240 THEN 144..191
                                     ELSE IF c = 244 THEN 128..143 ELSE 128..191)
                /\ Continuation(bytes[i + 2])
                /\ Continuation(bytes[i + 3]) THEN 4
        ELSE 0

\* the code point of the sequence of length n that starts at bytes[i]
CodePoint(bytes, i, n) ==
    CASE n = 1 -> bytes[i]
      [] n = 2 -> (bytes[i] - 192) * 64 + (bytes[i + 1] - 128)
      [] n = 3 -> (bytes[i] - 224) * 4096 + (bytes[i + 1] - 128) * 64
                  + (bytes[i + 2] - 128)
      [] n = 4 -> (bytes[i] - 240) * 262144 + (bytes[i + 1] - 128) * 4096
                  + (bytes[i + 2] - 128) * 64 + (bytes[i + 3] - 128)

Undecodable == [ok |-> FALSE, text |-> <<>>]

\* a sequence of marks, each <<c>> or <<>>, as the text of the characters c
Compact(marks) ==
    LET kept == SelectSeq(marks, LAMBDA m : m # <<>>)
    IN  [j \in 1..Len(kept) |-> kept[j][1]]

\* the bytes decoded; not ok where python raises UnicodeDecodeError.  The
\* characters start at the bytes that are not continuation bytes, so the
\* bytes are UTF-8 if a well-formed sequence starts at each of these and is
\* followed by the next of these or by the end.
Utf8Decode(bytes) ==
    LET leads == {i \in 1..Len(bytes) : ~Continuation(bytes[i])}
    IN  IF /\ (bytes # <<>> => 1 \in leads)
           /\ \A i \in leads :
                 LET n == SequenceLength(bytes, i)
                 IN  n > 0 /\ (i + n = Len(bytes) + 1 \/ i + n \in leads)
        THEN [ok |-> TRUE,
              text |-> Compact([i \in 1..Len(bytes) |->
                                  IF i \in leads
                                  THEN <<CodePoint(bytes, i, SequenceLength(bytes, i))>>
                                  ELSE <<>>])]
        ELSE Undecodable

\* text mode of python 3: "\r\n" and "\r" are read as "\n"
UniversalNewlines(t) ==
    Compact([i \in 1..Len(t) |->
                IF t[i] = 10 /\ i > 1 /\ t[i - 1] = 13 THEN <<>>
                ELSE IF t[i] = 13 THEN <<10>>
                ELSE <<t[i]>>])

\* x.read(): python 2 hands out the bytes; python 3 decodes them and raises
\* if they are not UTF-8
ReadText(py, bytes) ==
    IF py = "python2" THEN [ok |-> TRUE, text |-> bytes]
    ELSE LET d == Utf8Decode(bytes)
         IN  IF d.ok THEN [ok |-> TRUE, text |-> UniversalNewlines(d.text)]
             ELSE Undecodable

\* the UTF-8 bytes of a code point
Utf8(c) ==
    IF c < 128 THEN <<c>>
    ELSE IF c < 2048 THEN <<192 + (c \div 64), 128 + (c % 64)>>
    ELSE IF c < 65536
         THEN <<224 + (c \div 4096), 128 + ((c \div 64) % 64), 128 + (c % 64)>>
    ELSE <<240 + (c \div 262144), 128 + ((c \div 4096) % 64),
           128 + ((c \div 64) % 64), 128 + (c % 64)>>

RECURSIVE Utf8Encode(_)
\* the UTF-8 bytes of a text: those of its characters, one after the other
Utf8Encode(t) ==
    IF t = <<>> THEN <<>>
    ELSE IF Len(t) = 1 THEN Utf8(t[1])
    ELSE LET half == Len(t) \div 2
         IN  Utf8Encode(SubSeq(t, 1, half)) \o Utf8Encode(SubSeq(t, half + 1, Len(t)))

\* print(text) and f.write(text): the bytes that reach stdout or the file
Written(py, t) == IF py = "python2" THEN t ELSE Utf8Encode(t)

----------------------------------------------------------------------------
(* re.search(pattern, text) for the patterns of the table *)

\* \s of a python 2 pattern (str): [ \t\n\r\f\v]
AsciiSpace == {9, 10, 11, 12, 13, 32}

\* \s of a python 3 pattern (str): the Unicode whitespace
UnicodeSpace ==
    AsciiSpace \cup {28, 29, 30, 31, 133, 160, 5760} \cup (8192..8202)
               \cup {8232, 8233, 8239, 8287, 12288}

Whitespace(py) == IF py = "python2" THEN AsciiSpace ELSE UnicodeSpace

IsSpace(py, c) == c \in Whitespace(py)

\* the literal text lit stands at position i of text
LiteralAt(lit, text, i) ==
    /\ i + Len(lit) - 1 <= Len(text)
    /\ \A j \in 1..Len(lit) : text[i + j - 1] = lit[j]

\* the pattern lit(\S+) matches at position i: the literal, then one
\* non-whitespace character at least
MatchesAt(py, lit, text, i) ==
    /\ LiteralAt(lit, text, i)
    /\ i + Len(lit) <= Len(text)
    /\ ~IsSpace(py, text[i + Len(lit)])

\* the end of the greedy run \S+ that starts at position s
RunEnd(py, text, s) ==
    CHOOSE e \in s..Len(text) :
        /\ \A j \in s..e : ~IsSpace(py, text[j])
        /\ (e = Len(text) \/ IsSpace(py, text[e + 1]))

NoMatch == [found |-> FALSE, start |-> 0, group1 |-> <<>>]

\* (mutant) the match at the last position where the pattern matches
ReSearchLast(py, lit, text) ==
    LET starts == {i \in 1..Len(text) : MatchesAt(py, lit, text, i)}
    IN  IF starts = {} THEN NoMatch
        ELSE LET i == CHOOSE m \in starts : \A n \in starts : m >= n
                 s == i + Len(lit)
             IN  [found |-> TRUE, start |-> i,
                  group1 |-> SubSeq(text, s, RunEnd(py, text, s))]

\* re.search scans left to right and returns the match at the first position
\* where the pattern matches, or None
ReSearch(py, lit, text) ==
    LET starts == {i \in 1..Len(text) : MatchesAt(py, lit, text, i)}
    IN  IF starts = {} THEN NoMatch
        ELSE LET i == CHOOSE m \in starts : \A n \in starts : m <= n
                 s == i + Len(lit)
             IN  [found |-> TRUE, start |-> i,
                  group1 |-> SubSeq(text, s, RunEnd(py, text, s))]

\* "v{}".format(match.group(1))
FormatVersion(g) == VersionPrefix \o g

----------------------------------------------------------------------------
(* The ordered mapping *)

EmptyDict == [keys |-> <<>>, val |-> [k \in Tools |-> <<>>]]

HasKey(d, k) == \E i \in 1..Len(d.keys) : d.keys[i] = k

\* d[k] = v: a new key goes to the end, an existing key keeps its place
SetItem(d, k, v) ==
    [keys |-> IF HasKey(d, k) THEN d.keys ELSE Append(d.keys, k),
     val  |-> [d.val EXCEPT ![k] = v]]

\* del d[k]
DelItem(d, k) ==
    [keys |-> SelectSeq(d.keys, LAMBDA x : x # k),
     val  |-> [d.val EXCEPT ![k] = <<>>]]

\* (mutant) the pairs in the reverse of the insertion order
ItemsReversed(d) ==
    [i \in 1..Len(d.keys) |->
        <<d.keys[Len(d.keys) + 1 - i], d.val[d.keys[Len(d.keys) + 1 - i]]>>]

\* d.items(): the (key, value) pairs in insertion order
Items(d) == [i \in 1..Len(d.keys) |-> <<d.keys[i], d.val[d.keys[i]]>>]

RECURSIVE SetAll(_, _, _)
\* lines 15-21: results = OrderedDict(), then one assignment per tool
SetAll(d, ks, v) ==
    IF ks = <<>> THEN d ELSE SetAll(SetItem(d, Head(ks), v), Tail(ks), v)

DefaultResults == SetAll(EmptyDict, DeclOrder, Placeholder)

\* (mutant) an entry without a version counts as unset
FalsyOrDefault(v) == v = <<>> \/ v = Placeholder

\* not results[k]: the empty string is the only falsy text
Falsy(v) == v = <<>>

\* lines 32-34 under python 2.7, whose OrderedDict iterator walks on from a
\* deleted key: every falsy entry is deleted
WithoutFalsy(d) ==
    [keys |-> SelectSeq(d.keys, LAMBDA x : ~Falsy(d.val[x])), val |-> d.val]

----------------------------------------------------------------------------
(* Formatting of the two outputs *)

\* "        <dt>{}</dt><dd><samp>{}</samp></dd>".format(k, v), printed
DtLine(k, v) == DtOpen \o Name(k) \o DtMid \o v \o DtClose \o NL

\* "{}\t{}\n".format(k, v)
CsvLine(k, v) == Name(k) \o TAB \o v \o NL

RECURSIVE DtLinesFound(_)
\* (mutant) only the tools with a version are printed
DtLinesFound(items) ==
    IF items = <<>> THEN <<>>
    ELSE (IF Head(items)[2] = Placeholder THEN <<>>
          ELSE DtLine(Head(items)[1], Head(items)[2])) \o DtLinesFound(Tail(items))

RECURSIVE DtLines(_)
\* lines 46-47: one print per item
DtLines(items) ==
    IF items = <<>> THEN <<>>
    ELSE DtLine(Head(items)[1], Head(items)[2]) \o DtLines(Tail(items))

RECURSIVE CsvLines(_)
\* lines 52-53: one write per item
CsvLines(items) ==
    IF items = <<>> THEN <<>>
    ELSE CsvLine(Head(items)[1], Head(items)[2]) \o CsvLines(Tail(items))

----------------------------------------------------------------------------
(* The working directory before the run *)

Missing == [exists |-> FALSE, data |-> <<>>]

File(bytes) == [exists |-> TRUE, data |-> bytes]

\* (mutant) mode a: the content of the file is kept
OpenedForAppend(file) == File(file.data)

\* open(name, w): the file is created, or emptied if it is there
OpenedForWrite(file) == File(<<>>)

\* the version of the tool as the tool prints it, without the end of the line
Version(k) == Literal(k) \o Text(<<"1", ".", "9">>)

\* the version line of the tool, as the pipeline writes it
Typical(k) == Version(k) \o NL

\* U+00A0 in UTF-8: whitespace for python 3, two ordinary bytes for python 2
NoBreakSpace == <<194, 160>>

\* a byte that is not UTF-8: python 3 cannot read the file
BadByte == <<255>>

\* what a version file is made of: the literal text of the pattern,
\* the version, the end of a line, a no-break space and a bad byte
Pieces(k) == {Literal(k), Version(k), NL, NoBreakSpace, BadByte} \ {<<>>}

RECURSIVE Texts(_, _)
\* the contents of at most n pieces
Texts(k, n) ==
    IF n = 0 THEN {<<>>}
    ELSE LET shorter == Texts(k, n - 1)
         IN  shorter \cup {t \o p : t \in shorter, p \in Pieces(k)}

\* a stale software_versions.csv left by an earlier run
StaleCsv == Text(<<"o","l","d","\t","v","0","\n","o","l","d","\n">>)

\* the working directories the model starts from.  Plain: some version files
\* are missing, or some are empty, and the others are typical; the csv file is
\* missing or stale.  Focus: one version file holds any content of at most
\* MaxPieces pieces, the others are all typical or all missing, and the csv
\* file is stale.
InputSets ==
    [Tools -> {"missing", "typical"}] \cup [Tools -> {"empty", "typical"}]

PlainInputs(kind) ==
    [k \in Tools |->
        CASE kind[k] = "missing" -> Missing
          [] kind[k] = "empty"   -> File(<<>>)
          [] kind[k] = "typical" -> File(Typical(k))]

FocusInputs(focus, bytes, others) ==
    [k \in Tools |->
        IF k = focus THEN File(bytes)
        ELSE IF others = "typical" THEN File(Typical(k)) ELSE Missing]

ToolOf(f) == CHOOSE k \in Tools : FileOf(k) = f

Directory(inputs, csv) ==
    [f \in FileNames |-> IF f = CsvFile THEN csv ELSE inputs[ToolOf(f)]]

----------------------------------------------------------------------------
(* The script *)

Init ==
    /\ python \in Interpreters
    /\ \/ \E kind \in InputSets, csv \in {Missing, File(StaleCsv)} :
             fs = Directory(PlainInputs(kind), csv)
       \/ \E focus \in Tools, others \in {"typical", "missing"} :
             \E bytes \in Texts(focus, MaxPieces) :
                fs = Directory(FocusInputs(focus, bytes, others), File(StaleCsv))
    /\ oldCsv = fs[CsvFile]
    /\ pc = "start"
    /\ error = "none"
    /\ results = EmptyDict
    /\ visited = {}
    /\ cur = "none"
    /\ open = {}
    /\ stdout = <<>>
    /\ writes = [k \in Tools |-> 0]
    /\ consumed = <<>>

\* lines 15-21
SetDefaults ==
    /\ pc = "start"
    /\ results' = DefaultResults
    /\ pc' = "extract"
    /\ UNCHANGED <<python, fs, error, visited, cur, open, stdout, oldCsv, writes, consumed>>

\* (mutant) a missing file is reported on stdout before the script ends
OpenInputReport(k) ==
    /\ pc = "extract"
    /\ k \notin visited
    /\ cur' = k
    /\ IF fs[FileOf(k)].exists
       THEN /\ open' = open \cup {FileOf(k)}
            /\ pc' = "search"
            /\ stdout' = stdout
            /\ error' = error
       ELSE /\ open' = open
            /\ pc' = "failed"
            /\ stdout' = stdout \o Written(python, Name(k) \o NL)
            /\ error' = "FileNotFound"
    /\ UNCHANGED <<python, fs, results, visited, oldCsv, writes, consumed>>

\* lines 24-25: the loop takes the next key of regexes (a dict: any order) and
\* opens its file; if there is none, open() raises (IOError under python 2,
\* FileNotFoundError under python 3) and the script ends
OpenInput(k) ==
    /\ pc = "extract"
    /\ k \notin visited
    /\ cur' = k
    /\ IF fs[FileOf(k)].exists
       THEN /\ open' = open \cup {FileOf(k)}
            /\ pc' = "search"
            /\ error' = error
       ELSE /\ open' = open
            /\ pc' = "failed"
            /\ error' = "FileNotFound"
    /\ UNCHANGED <<python, fs, results, visited, stdout, oldCsv, writes, consumed>>

\* (mutant) the handle is never closed
ClosedLeak(handles, f) == handles

\* the handle set after leaving a with block, by its end or by an exception
Closed(handles, f) == handles \ {f}

\* lines 26-29 and the end of the with block.  Under python 3 x.read() raises
\* UnicodeDecodeError on a file that is not UTF-8, and the script ends.
SearchAndClose ==
    /\ pc = "search"
    /\ open' = Closed(open, FileOf(cur))
    /\ LET versions == ReadText(python, fs[FileOf(cur)].data)
       IN  IF versions.ok
           THEN LET match == ReSearch(python, Literal(cur), versions.text)
                IN  /\ IF match.found
                       THEN /\ results' = SetItem(results, cur, FormatVersion(match.group1))
                            /\ writes' = [writes EXCEPT ![cur] = @ + 1]
                       ELSE UNCHANGED <<results, writes>>
                    /\ visited' = visited \cup {cur}
                    /\ pc' = IF visited' = Tools THEN "remove" ELSE "extract"
                    /\ error' = error
           ELSE /\ pc' = "failed"
                /\ error' = "UnicodeDecode"
                /\ UNCHANGED <<results, writes, visited>>
    /\ UNCHANGED <<python, fs, cur, stdout, oldCsv, consumed>>

\* lines 32-34.  Under python 3 a deletion while iterating makes the next
\* step of the iteration raise RuntimeError, unless the deleted key was the
\* last one; under python 2.7 the loop goes on and deletes every falsy entry.
RemoveFalsy ==
    /\ pc = "remove"
    /\ LET falsy == {i \in 1..Len(results.keys) : Falsy(results.val[results.keys[i]])}
       IN  IF falsy = {}
           THEN /\ results' = results
                /\ pc' = "dump"
                /\ error' = error
           ELSE IF python = "python2"
           THEN /\ results' = WithoutFalsy(results)
                /\ pc' = "dump"
                /\ error' = error
           ELSE LET i == CHOOSE m \in falsy : \A n \in falsy : m <= n
                IN  /\ results' = DelItem(results, results.keys[i])
                    /\ pc' = IF i = Len(results.keys) THEN "dump" ELSE "failed"
                    /\ error' = IF i = Len(results.keys) THEN error ELSE "Runtime"
    /\ UNCHANGED <<python, fs, visited, cur, open, stdout, oldCsv, writes, consumed>>

\* lines 37-45: print adds a newline to the text
PrintHeader ==
    /\ pc = "dump"
    /\ stdout' = stdout \o Written(python, YamlHeader \o NL)
    /\ pc' = "entries"
    /\ UNCHANGED <<python, fs, error, results, visited, cur, open, oldCsv, writes, consumed>>

\* lines 46-47
PrintEntries ==
    /\ pc = "entries"
    /\ stdout' = stdout \o Written(python, DtLines(Items(results)))
    /\ consumed' = Append(consumed, "stdout")
    /\ pc' = "footer"
    /\ UNCHANGED <<python, fs, error, results, visited, cur, open, oldCsv, writes>>

\* line 48
PrintFooter ==
    /\ pc = "footer"
    /\ stdout' = stdout \o Written(python, DlClose \o NL)
    /\ pc' = "csv"
    /\ UNCHANGED <<python, fs, error, results, visited, cur, open, oldCsv, writes, consumed>>

\* line 51: mode w creates the file, or empties the one that is there
OpenCsv ==
    /\ pc = "csv"
    /\ fs' = [fs EXCEPT ![CsvFile] = OpenedForWrite(@)]
    /\ open' = open \cup {CsvFile}
    /\ pc' = "write"
    /\ UNCHANGED <<python, error, results, visited, cur, stdout, oldCsv, writes, consumed>>

\* lines 52-53
WriteEntries ==
    /\ pc = "write"
    /\ fs' = [fs EXCEPT ![CsvFile].data = @ \o Written(python, CsvLines(Items(results)))]
    /\ consumed' = Append(consumed, "csv")
    /\ pc' = "close"
    /\ UNCHANGED <<python, error, results, visited, cur, open, stdout, oldCsv, writes>>

\* the end of the with block of line 51, and of the script
CloseCsv ==
    /\ pc = "close"
    /\ open' = Closed(open, CsvFile)
    /\ pc' = "done"
    /\ UNCHANGED <<python, fs, error, results, visited, cur, stdout, oldCsv, writes, consumed>>

Next ==
    \/ SetDefaults
    \/ \E k \in Tools : OpenInput(k)
    \/ SearchAndClose
    \/ RemoveFalsy
    \/ PrintHeader
    \/ PrintEntries
    \/ PrintFooter
    \/ OpenCsv
    \/ WriteEntries
    \/ CloseCsv

Spec == Init /\ [][Next]_vars

----------------------------------------------------------------------------
(* Reading the outputs back, and what the patterns mean *)

RECURSIVE SplitLines(_)
\* the lines of a text, without their newlines
SplitLines(text) ==
    IF text = <<>> THEN <<>>
    ELSE LET nls == {i \in 1..Len(text) : text[i] = NL[1]}
         IN  IF nls = {} THEN <<text>>
             ELSE LET i == CHOOSE m \in nls : \A n \in nls : m <= n
                  IN  <<SubSeq(text, 1, i - 1)>>
                          \o SplitLines(SubSeq(text, i + 1, Len(text)))

StartsWith(text, pat) ==
    Len(text) >= Len(pat) /\ SubSeq(text, 1, Len(pat)) = pat

EndsWith(text, pat) ==
    Len(text) >= Len(pat) /\ SubSeq(text, Len(text) - Len(pat) + 1, Len(text)) = pat

\* the positions where pat occurs in text
Occurrences(text, pat) ==
    {i \in 1..Len(text) : i + Len(pat) - 1 <= Len(text)
                          /\ SubSeq(text, i, i + Len(pat) - 1) = pat}

Least(S) == CHOOSE m \in S : \A n \in S : m <= n

\* a line of the csv file as <<name, value>>, split at its first tab;
\* <<line>> if it has none
CsvRow(line) ==
    LET tabs == Occurrences(line, TAB)
    IN  IF tabs = {} THEN <<line>>
        ELSE <<SubSeq(line, 1, Least(tabs) - 1), SubSeq(line, Least(tabs) + 1, Len(line))>>

CsvRows(data) ==
    LET lines == SplitLines(data) IN [i \in 1..Len(lines) |-> CsvRow(lines[i])]

\* a line of the definition list as <<name, value>>; <<line>> if it is not
\* a <dt>/<dd> pair
DtRow(line) ==
    LET rest == SubSeq(line, Len(DtOpen) + 1, Len(line) - Len(DtClose))
        mids == Occurrences(rest, DtMid)
    IN  IF StartsWith(line, DtOpen) /\ EndsWith(line, DtClose)
           /\ Len(line) >= Len(DtOpen) + Len(DtClose) /\ mids # {}
        THEN <<SubSeq(rest, 1, Least(mids) - 1),
               SubSeq(rest, Least(mids) + Len(DtMid), Len(rest))>>
        ELSE <<line>>

DataKey == Text(<<"d","a","t","a",":"," ","|">>)

DlOpenLine ==
    Text(<<" "," "," "," ","<","d","l"," ","c","l","a","s","s","=","\"","d","l",
           "-","h","o","r","i","z","o","n","t","a","l","\"",">">>)

\* the lines of the data field: those after the line "data: |"
DataLines(out) ==
    LET lines == SplitLines(out)
        at    == {i \in 1..Len(lines) : lines[i] = DataKey}
    IN  IF at = {} THEN <<>> ELSE SubSeq(lines, Least(at) + 1, Len(lines))

\* the data field is the opening tag, an empty line, the pairs and the
\* closing tag
WellFormedData(out) ==
    LET d == DataLines(out)
    IN  /\ Len(d) >= 3
        /\ d[1] = DlOpenLine
        /\ d[2] = <<>>
        /\ d[Len(d)] = DlClose
        /\ EndsWith(out, NL)

\* the lines between the opening and the closing tag, each as a row
DtRows(out) ==
    LET d == DataLines(out)
    IN  [i \in 1..(IF Len(d) >= 3 THEN Len(d) - 3 ELSE 0) |-> DtRow(d[i + 2])]

\* a text of the script as it stands in an output
Shown(t) == Written(python, t)

\* the values an output gives for tool k
ValuesFor(rows, k) ==
    {rows[i][2] :
        i \in {j \in 1..Len(rows) : Len(rows[j]) = 2 /\ rows[j][1] = Shown(Name(k))}}

RowNames(rows) == [i \in 1..Len(rows) |-> rows[i][1]]

\* the entries of the mapping, as the outputs should show them
Entries ==
    [i \in 1..Len(results.keys) |->
        <<Shown(Name(results.keys[i])), Shown(results.val[results.keys[i]])>>]

CsvData == fs[CsvFile].data

\* <<i, e>>: the pattern lit(\S+) matches text from i to e, the group being
\* the whole run of non-whitespace that follows the literal; whitespace is
\* what the interpreter at hand takes for it
MatchSpans(lit, text) ==
    LET starts == {i \in 1..Len(text) : /\ i + Len(lit) - 1 <= Len(text)
                                        /\ SubSeq(text, i, i + Len(lit) - 1) = lit}
        ends(i) == {e \in (i + Len(lit))..Len(text) :
                      /\ \A j \in (i + Len(lit))..e : text[j] \notin Whitespace(python)
                      /\ (e = Len(text) \/ text[e + 1] \in Whitespace(python))}
    IN  UNION {{<<i, e>> : e \in ends(i)} : i \in starts}

\* the group of a span
GroupOf(lit, text, sp) == SubSeq(text, sp[1] + Len(lit), sp[2])

\* the leftmost span
FirstSpan(spans) == CHOOSE sp \in spans : \A o \in spans : sp[1] <= o[1]

\* the file of tool k can be read as text by the interpreter at hand
Readable(k) == ReadText(python, fs[FileOf(k)].data).ok

\* the content of the file of tool k, as the interpreter at hand reads it
InputText(k) == ReadText(python, fs[FileOf(k)].data).text

AfterPass == {"remove", "dump", "entries", "footer", "csv", "write", "close", "done"}

----------------------------------------------------------------------------
(* The claims *)

\* C1: when the script has finished, every tool whose file matches its
\* pattern has, in the csv file and in the definition list on stdout, the
\* value "v" followed by group 1 of the leftmost match.
C1_MatchedVersionReported ==
    pc = "done" =>
        LET csv == CsvRows(CsvData)
            dl  == DtRows(stdout)
        IN  \A k \in Tools :
                LET text  == InputText(k)
                    spans == MatchSpans(Literal(k), text)
                IN  (fs[FileOf(k)].exists /\ spans # {}) =>
                      LET v == Shown(VersionPrefix
                                       \o GroupOf(Literal(k), text, FirstSpan(spans)))
                      IN  /\ ValuesFor(csv, k) = {v}
                          /\ ValuesFor(dl, k) = {v}

\* a finished run in which a file holds two matches with different groups
C1_Witness ==
    /\ pc = "done"
    /\ \E k \in Tools :
         LET spans == MatchSpans(Literal(k), InputText(k))
         IN  /\ \E a \in spans, b \in spans :
                   /\ a[1] < b[1]
                   /\ GroupOf(Literal(k), InputText(k), a) # GroupOf(Literal(k), InputText(k), b)
             /\ Literal(k) # <<>>
             /\ results.val[k] =
                   VersionPrefix \o GroupOf(Literal(k), InputText(k), FirstSpan(spans))

\* C2: when the script has finished, every tool whose file is there but does
\* not match has the placeholder in both outputs; and the script never
\* fails over a file that is there.
C2_UnmatchedKeepsPlaceholder ==
    /\ pc = "done" =>
         LET csv == CsvRows(CsvData)
             dl  == DtRows(stdout)
         IN  \A k \in Tools :
                (fs[FileOf(k)].exists /\ MatchSpans(Literal(k), InputText(k)) = {}) =>
                   /\ ValuesFor(csv, k) = {Shown(Placeholder)}
                   /\ ValuesFor(dl, k) = {Shown(Placeholder)}
    /\ pc = "failed" => ~fs[FileOf(cur)].exists

\* python 3 has failed reading a file that is there, and nothing is printed
C2_Witness ==
    /\ pc = "failed"
    /\ python = "python3"
    /\ error = "UnicodeDecode"
    /\ fs[FileOf(cur)].exists /\ ~Readable(cur)
    /\ \A k \in Tools : fs[FileOf(k)].exists
    /\ stdout = <<>>

\* C3: when the script has finished, both outputs list the six tools in the
\* order of declaration, whatever order the extraction loop took.
C3_DeclarationOrder ==
    pc = "done" =>
        /\ RowNames(CsvRows(CsvData)) = [i \in 1..Len(DeclOrder) |-> Shown(Name(DeclOrder[i]))]
        /\ RowNames(DtRows(stdout)) = [i \in 1..Len(DeclOrder) |-> Shown(Name(DeclOrder[i]))]

\* a finished run whose extraction loop took the first tool last, with a
\* version found for some tool and not for another
C3_Witness ==
    /\ pc = "done"
    /\ cur = DeclOrder[1]
    /\ \E k \in Tools : results.val[k] = Placeholder
    /\ \E k \in Tools : results.val[k] # Placeholder

\* C4: when the script has finished, software_versions.csv holds exactly one
\* line name<TAB>value per entry of the mapping, in order, and nothing else:
\* no header, and nothing of what the file held before.
C4_CsvLines ==
    pc = "done" =>
        /\ fs[CsvFile].exists
        /\ CsvData = <<>> \/ EndsWith(CsvData, NL)
        /\ SplitLines(CsvData) =
              [i \in 1..Len(results.keys) |-> Entries[i][1] \o TAB \o Entries[i][2]]

\* a finished run that found a stale csv file
C4_Witness ==
    /\ pc = "done"
    /\ oldCsv = File(StaleCsv)
    /\ Len(SplitLines(CsvData)) = Len(results.keys)
    /\ \E k \in Tools : results.val[k] # Placeholder

\* C5: when the script has finished, the data field on stdout is a definition
\* list with exactly one <dt>/<dd> pair per entry of the mapping, in order,
\* and the pairs are those of the csv file.
C5_StdoutMatchesCsv ==
    pc = "done" =>
        LET dl == DtRows(stdout)
        IN  /\ WellFormedData(stdout)
            /\ dl = Entries
            /\ dl = CsvRows(CsvData)

\* a finished run with versions and placeholders
C5_Witness ==
    /\ pc = "done"
    /\ Len(DtRows(stdout)) = Len(DeclOrder)
    /\ \E k \in Tools : results.val[k] = Placeholder
    /\ \E k \in Tools : results.val[k] # Placeholder /\ k # DeclOrder[1]

\* C6: with an input file missing the script never gets past the extraction
\* loop, and when it ends it has ended in a file-not-found failure, over a
\* missing file, without counting the tool as done.
C6_MissingFileFails ==
    (\E k \in Tools : ~fs[FileOf(k)].exists) =>
        /\ pc \in {"start", "extract", "search", "failed"}
        /\ pc = "failed" =>
             /\ error = "FileNotFound"
             /\ ~fs[FileOf(cur)].exists
             /\ cur \notin visited

\* with a file missing, python 3 has ended over a file that is there
C6_Witness ==
    /\ pc = "failed"
    /\ error = "UnicodeDecode"
    /\ fs[FileOf(cur)].exists
    /\ \E k \in Tools : ~fs[FileOf(k)].exists

\* C7: once the extraction loop is over every value is the placeholder or
\* "v" and a non-empty group, so none is empty, the removal step removes
\* nothing, and all six tools are in both outputs of a finished run.
C7_NothingRemoved ==
    /\ pc \in AfterPass =>
         /\ results.keys = DeclOrder
         /\ \A k \in Tools :
               /\ results.val[k] # <<>>
               /\ \/ results.val[k] = Placeholder
                  \/ Len(results.val[k]) >= 2 /\ StartsWith(results.val[k], VersionPrefix)
    /\ pc = "done" =>
         LET csv == CsvRows(CsvData)
             dl  == DtRows(stdout)
         IN  \A k \in Tools :
                /\ Cardinality(ValuesFor(csv, k)) = 1
                /\ Cardinality(ValuesFor(dl, k)) = 1

\* the removal step has run over placeholders and versions
C7_Witness ==
    /\ pc = "dump"
    /\ \E k \in Tools : results.val[k] = Placeholder
    /\ \E k \in Tools : results.val[k] # Placeholder

C8_State ==
    /\ results.keys # DeclOrder => (pc = "start" /\ open = {} /\ visited = {})
    /\ \A k \in Tools : writes[k] <= 1
    /\ (stdout # <<>> \/ fs[CsvFile] # oldCsv \/ consumed # <<>>) => visited = Tools
    /\ consumed \in {<<>>, <<"stdout">>, <<"stdout", "csv">>}
    /\ pc = "done" => consumed = <<"stdout", "csv">>

C8_Step ==
    /\ pc \in AfterPass => results' = results
    /\ results' # results =>
         \/ pc = "start" /\ results' = DefaultResults
         \/ /\ pc = "search"
            /\ results'.keys = results.keys
            /\ \A k \in Tools \ {cur} : results'.val[k] = results.val[k]

\* C8: the six defaults are set before any file is opened; the extraction
\* loop assigns each entry at most once, and only the entry of the tool at
\* hand; nothing is printed or written before the loop is over; after the
\* loop the mapping does not change; and it is traversed for output twice,
\* for stdout and then for the csv file.
C8_Lifecycle == []C8_State /\ [][C8_Step]_vars

\* a finished run that assigned some entries and left others
C8_Witness ==
    /\ pc = "done"
    /\ consumed = <<"stdout", "csv">>
    /\ \E k \in Tools : writes[k] = 1
    /\ \E k \in Tools : writes[k] = 0

\* C9: at most one file is open at any time; between two iterations of the
\* extraction loop, while output is produced on stdout, and when the script
\* has ended (finished or failed) no input file is open, and at the end no
\* file at all.
C9_ScopedHandles ==
    /\ Cardinality(open) <= 1
    /\ pc = "extract" => open = {}
    /\ pc = "search" => open = {FileOf(cur)}
    /\ (stdout # <<>> \/ fs[CsvFile] # oldCsv) => open \subseteq {CsvFile}
    /\ pc \in {"done", "failed"} => open = {}

\* the script has ended over a missing file after it had read two files
C9_Witness ==
    /\ pc = "failed"
    /\ error = "FileNotFound"
    /\ Cardinality(visited) = 2
    /\ open = {}

\* C10: a run that failed over a missing input file has printed nothing, and
\* software_versions.csv is as it was before the run (missing, or with its
\* old content).
C10_FailureLeavesNoOutput ==
    (pc = "failed" /\ error = "FileNotFound") =>
        /\ ~fs[FileOf(cur)].exists
        /\ stdout = <<>>
        /\ fs[CsvFile] = oldCsv

\* a run that failed after it had found a version, with a stale csv file
C10_Witness ==
    /\ pc = "failed"
    /\ error = "FileNotFound"
    /\ oldCsv = File(StaleCsv)
    /\ \E k \in visited : results.val[k] # Placeholder

====
